---- MODULE Spec2Model ----
(***************************************************************************)
(* Model of api/pushshift-bridge.ts: the single fetch handler that checks  *)
(* method, configuration and credential, validates the body against       *)
(* RequestSchema, forwards it to the upstream bridge and normalises the    *)
(* upstream payload into NormalisedComment records.                        *)
(***************************************************************************)
EXTENDS Integers, Sequences, FiniteSets, TLC

VARIABLES BRIDGE_URL, API_KEY, request, pc, outbound, upstream, response

vars == <<BRIDGE_URL, API_KEY, request, pc, outbound, upstream, response>>

(***************************************************************************)
(* Bounds and program constants.                                           *)
(***************************************************************************)
MaxItems == 2

SizeMin == 1

SizeMax == 500

SizeDefault == 50

DetailMax == 500

(***************************************************************************)
(* JavaScript / JSON values.  t is the kind of the value; a number is      *)
(* n plus the fractional suffix s ("" for an integer, ".5" for n + 0.5);   *)
(* a string is s; an array is rendered by its join s; an object with       *)
(* s = "toString" has an own, non-callable "toString" key.                 *)
(***************************************************************************)
JUndefined == [t |-> "undefined", n |-> 0, s |-> ""]

JNull == [t |-> "null", n |-> 0, s |-> ""]

JNum(n) == [t |-> "number", n |-> n, s |-> ""]

JFrac(n, frac) == [t |-> "number", n |-> n, s |-> frac]

JStr(s) == [t |-> "string", n |-> 0, s |-> s]

JBool(b) == [t |-> "boolean", n |-> IF b THEN 1 ELSE 0, s |-> ""]

JObject == [t |-> "object", n |-> 0, s |-> ""]

JObjectShadow == [t |-> "object", n |-> 0, s |-> "toString"]

JArray(joined) == [t |-> "array", n |-> 0, s |-> joined]

\* x === undefined || x === null, the test behind ?? and ?.
Nullish(v) == v.t \in {"undefined", "null"}

\* !x for the values a header or an environment variable can hold
Falsy(v) == Nullish(v) \/ (v.t = "string" /\ v.s = "")

\* a ?? b
Coalesce(a, b) == IF Nullish(a) THEN b ELSE a

TypeofNumber(v) == v.t = "number"

IsInteger(v) == v.t = "number" /\ v.s = ""

Digit(d) ==
  CASE d = 0 -> "0" [] d = 1 -> "1" [] d = 2 -> "2" [] d = 3 -> "3"
    [] d = 4 -> "4" [] d = 5 -> "5" [] d = 6 -> "6" [] d = 7 -> "7"
    [] d = 8 -> "8" [] d = 9 -> "9"

RECURSIVE NatStr(_)
NatStr(n) == IF n < 10 THEN Digit(n) ELSE NatStr(n \div 10) \o Digit(n % 10)

NumStr(v) == (IF v.n < 0 THEN "-" \o NatStr(-v.n) ELSE NatStr(v.n)) \o v.s

\* String(v) throws a TypeError when v cannot be converted to a primitive
StringThrows(v) == v.t = "object" /\ v.s = "toString"

\* String(v)
String(v) ==
  CASE v.t = "undefined" -> "undefined"
    [] v.t = "null" -> "null"
    [] v.t = "number" -> NumStr(v)
    [] v.t = "string" -> v.s
    [] v.t = "boolean" -> (IF v.n = 1 THEN "true" ELSE "false")
    [] v.t = "array" -> v.s
    [] v.t = "object" -> "[object Object]"

(***************************************************************************)
(* Inbound request: method, x-mcp-key header (JNull when missing, as       *)
(* headers.get returns) and body.  A body is unparsable text (t =          *)
(* "invalid"), a JSON object with the fields f, or another JSON value.     *)
(***************************************************************************)
BodyFields == {"subreddit", "query", "size", "before", "after"}

NoFields == [k \in BodyFields |-> JUndefined]

Methods == {"POST", "GET", "PUT"}

HeaderValues == {JNull, JStr(""), JStr("k1"), JStr("k1x")}

EnvUrlValues == {JUndefined, JStr(""), JStr("https://bridge")}

EnvKeyValues == {JUndefined, JStr(""), JStr("k1")}

SubredditValues == {JUndefined, JStr(""), JStr("movies"), JNum(7)}

QueryValues == {JUndefined, JStr(""), JStr("oscars")}

SizeValues ==
  {JUndefined, JNull, JNum(0), JNum(1), JNum(500), JNum(501),
   JFrac(1, ".5"), JFrac(0, ".5"), JFrac(500, ".5"), JStr("10")}

\* <<before, after>>
RangeValues ==
  {<<JUndefined, JUndefined>>, <<JNum(200), JNum(100)>>,
   <<JFrac(1, ".5"), JUndefined>>, <<JUndefined, JStr("x")>>,
   <<JNull, JUndefined>>}

ObjectBodies ==
  {[t |-> "object",
    f |-> [k \in BodyFields |->
             CASE k = "subreddit" -> sub
               [] k = "query" -> q
               [] k = "size" -> sz
               [] k = "before" -> rg[1]
               [] k = "after" -> rg[2]]] :
     sub \in SubredditValues, q \in QueryValues, sz \in SizeValues,
     rg \in RangeValues}

OtherBodies ==
  {[t |-> k, f |-> NoFields] : k \in {"invalid", "null", "number", "array"}}

Bodies == ObjectBodies \cup OtherBodies

Requests == [method : Methods, key : HeaderValues, body : Bodies]

NoRequest == [method |-> "", key |-> JNull, body |-> [t |-> "invalid", f |-> NoFields]]

(***************************************************************************)
(* RequestSchema: z.object({subreddit, query, size, before, after}).       *)
(* An issue is a path (<<>> for the body itself) and a reason code.        *)
(***************************************************************************)
Issue(path, code) == [path |-> path, code |-> code]

\* z.string().min(1)
StringMin1Issues(k, v) ==
  IF v.t # "string" THEN <<Issue(<<k>>, "invalid_type")>>
  ELSE IF v.s = "" THEN <<Issue(<<k>>, "too_small")>>
  ELSE <<>>

\* v >= SizeMin and v <= SizeMax for a number n + fraction
AtLeast(v, m) == v.n >= m

AtMost(v, m) == v.n < m \/ (v.n = m /\ v.s = "")

SizeIssues_NoMax(v) ==
  IF v.t = "undefined" THEN <<>>
  ELSE IF v.t # "number" THEN <<Issue(<<"size">>, "invalid_type")>>
  ELSE (IF IsInteger(v) THEN <<>> ELSE <<Issue(<<"size">>, "invalid_type")>>)
       \o (IF AtLeast(v, SizeMin) THEN <<>> ELSE <<Issue(<<"size">>, "too_small")>>)

\* z.number().int().min(1).max(500).default(50): every failed check reports
SizeIssues(v) ==
  IF v.t = "undefined" THEN <<>>
  ELSE IF v.t # "number" THEN <<Issue(<<"size">>, "invalid_type")>>
  ELSE (IF IsInteger(v) THEN <<>> ELSE <<Issue(<<"size">>, "invalid_type")>>)
       \o (IF AtLeast(v, SizeMin) THEN <<>> ELSE <<Issue(<<"size">>, "too_small")>>)
       \o (IF AtMost(v, SizeMax) THEN <<>> ELSE <<Issue(<<"size">>, "too_big")>>)

\* z.number().int().optional()
OptionalIntIssues(k, v) ==
  IF v.t = "undefined" THEN <<>>
  ELSE IF ~IsInteger(v) THEN <<Issue(<<k>>, "invalid_type")>>
  ELSE <<>>

SchemaIssues(raw) ==
  IF raw.t # "object" THEN <<Issue(<<>>, "invalid_type")>>
  ELSE StringMin1Issues("subreddit", raw.f["subreddit"])
       \o StringMin1Issues("query", raw.f["query"])
       \o SizeIssues(raw.f["size"])
       \o OptionalIntIssues("before", raw.f["before"])
       \o OptionalIntIssues("after", raw.f["after"])

\* parsed.data: the fields with the default applied to size
SchemaData(raw) ==
  [k \in BodyFields |->
     IF k = "size" /\ raw.f[k].t = "undefined" THEN JNum(SizeDefault)
     ELSE raw.f[k]]

\* RequestSchema.safeParse(rawBody)
SafeParse(raw) ==
  LET issues == SchemaIssues(raw)
  IN [success |-> issues = <<>>,
      data |-> IF issues = <<>> THEN SchemaData(raw) ELSE NoFields,
      issues |-> issues]

\* JSON.stringify of an object: keys holding undefined are left out
Stringify(obj) == [k \in {x \in DOMAIN obj : obj[x].t # "undefined"} |-> obj[k]]

(***************************************************************************)
(* Responses built by jsonResponse.                                        *)
(***************************************************************************)
NoResponse ==
  [status |-> 0, error |-> "", ok |-> FALSE, count |-> 0, comments |-> <<>>,
   upstatus |-> 0, detail |-> <<>>, issues |-> <<>>]

ErrorResponse(status, error) ==
  [NoResponse EXCEPT !.status = status, !.error = error]

MethodRejects_GetAllowed(m) == m \notin {"POST", "GET"}

\* request.method !== "POST"
MethodRejects(m) == m # "POST"

AuthRejects_MissingOnly(h, key) == Falsy(h)

\* !authHeader || authHeader !== API_KEY
AuthRejects(h, key) == Falsy(h) \/ h # key

Gate_AuthFirst(req, url, key) ==
  IF MethodRejects(req.method) THEN ErrorResponse(405, "Method not allowed. Use POST.")
  ELSE IF AuthRejects(req.key, key) THEN ErrorResponse(401, "Unauthorised.")
  ELSE IF Falsy(url) THEN ErrorResponse(500, "PUSHSHIFT_BRIDGE_URL is not configured on the server.")
  ELSE IF Falsy(key) THEN ErrorResponse(500, "PUSHSHIFT_MCP_KEY is not configured on the server.")
  ELSE NoResponse

\* The checks made before the body is read, in the order of the code
Gate(req, url, key) ==
  IF MethodRejects(req.method) THEN ErrorResponse(405, "Method not allowed. Use POST.")
  ELSE IF Falsy(url) THEN ErrorResponse(500, "PUSHSHIFT_BRIDGE_URL is not configured on the server.")
  ELSE IF Falsy(key) THEN ErrorResponse(500, "PUSHSHIFT_MCP_KEY is not configured on the server.")
  ELSE IF AuthRejects(req.key, key) THEN ErrorResponse(401, "Unauthorised.")
  ELSE NoResponse

Validate_ParseOnly(req) ==
  IF req.body.t = "invalid" THEN ErrorResponse(400, "Request body must be valid JSON.")
  ELSE NoResponse

\* request.json() and RequestSchema.safeParse
Validate(req) ==
  IF req.body.t = "invalid" THEN ErrorResponse(400, "Request body must be valid JSON.")
  ELSE LET parsed == SafeParse(req.body)
       IN IF ~parsed.success
          THEN [ErrorResponse(400, "Invalid request body.") EXCEPT !.issues = parsed.issues]
          ELSE NoResponse

\* The response of a stage that rejects before the upstream call, else NoResponse
EarlyResponse(req, url, key) ==
  LET g == Gate(req, url, key)
  IN IF g # NoResponse THEN g ELSE Validate(req)

(***************************************************************************)
(* Upstream payloads.  An item of a list is a JSON value: an object with   *)
(* the fields f, or null, a number, a string, an array.  A container is    *)
(* what a payload holds under comments, data or results.                   *)
(***************************************************************************)
ItemFields ==
  {"id", "author", "body", "selftext", "score", "created_utc", "created",
   "permalink", "subreddit"}

NoItemFields == [k \in ItemFields |-> JUndefined]

ObjectItem(f) == [t |-> "object", f |-> f]

OtherItem(kind) == [t |-> kind, f |-> NoItemFields]

FieldValues ==
  {JNull, JNum(5), JFrac(1, ".5"), JStr("5"), JStr(""), JBool(TRUE), JObject,
   JObjectShadow, JArray("1,2")}

\* {"id": 1, "body": "great film", "score": "5"}
ExampleItem ==
  ObjectItem([NoItemFields EXCEPT !["id"] = JNum(1), !["body"] = JStr("great film"),
                                  !["score"] = JStr("5")])

FullItem ==
  ObjectItem([k \in ItemFields |->
     CASE k = "id" -> JStr("t1_a")
       [] k = "author" -> JStr("bob")
       [] k = "body" -> JNull
       [] k = "selftext" -> JStr("hello")
       [] k = "score" -> JNum(12)
       [] k = "created_utc" -> JStr("then")
       [] k = "created" -> JNum(1700)
       [] k = "permalink" -> JStr("/r/movies/1")
       [] k = "subreddit" -> JStr("movies")])

CoreItems == {ExampleItem, FullItem, OtherItem("null"), OtherItem("number")}

SingleFieldItems ==
  {ObjectItem([NoItemFields EXCEPT ![k] = v]) : k \in ItemFields, v \in FieldValues}

RichItems ==
  SingleFieldItems \cup {ObjectItem(NoItemFields), OtherItem("string"), OtherItem("array")}

RECURSIVE SeqsUpTo(_, _)
SeqsUpTo(S, n) ==
  IF n = 0 THEN {<<>>}
  ELSE LET shorter == SeqsUpTo(S, n - 1)
       IN shorter \cup {Append(q, x) : q \in shorter, x \in S}

ItemLists == SeqsUpTo(CoreItems, MaxItems) \cup {<<c>> : c \in RichItems}

ListContainer(items) == [t |-> "array", items |-> items]

OtherContainer(kind) == [t |-> kind, items |-> <<>>]

PlainContainers ==
  {OtherContainer("undefined"), OtherContainer("null"), OtherContainer("string"),
   ListContainer(<<>>), ListContainer(<<FullItem>>)}

AllContainers ==
  PlainContainers \cup {OtherContainer("object")} \cup {ListContainer(l) : l \in ItemLists}

ObjectPayload(c, d, r) == [t |-> "object", comments |-> c, data |-> d, results |-> r]

OtherPayload(kind) ==
  [t |-> kind, comments |-> OtherContainer("undefined"),
   data |-> OtherContainer("undefined"), results |-> OtherContainer("undefined")]

\* every object payload in which at most one key holds more than a plain container
ObjectPayloads ==
  {ObjectPayload(c, d, r) : c \in AllContainers, d \in PlainContainers, r \in PlainContainers}
  \cup {ObjectPayload(c, d, r) : c \in PlainContainers, d \in AllContainers, r \in PlainContainers}
  \cup {ObjectPayload(c, d, r) : c \in PlainContainers, d \in PlainContainers, r \in AllContainers}

\* t = "invalid": a body that upstream.json() cannot parse
OtherPayloads == {OtherPayload(k) : k \in {"invalid", "null", "string", "array"}}

TextLens == {0, 3, 499, 500, 501, 650}

MakeText(n) == [i \in 1..n |-> (i * i) % 7]

NoReply ==
  [kind |-> "none", status |-> 0, readable |-> FALSE, text |-> <<>>,
   json |-> OtherPayload("invalid")]

\* fetch rejected: no response arrived
FailedReply == [NoReply EXCEPT !.kind = "failed"]

ErrorReplies ==
  {[NoReply EXCEPT !.kind = "reply", !.status = st, !.readable = TRUE, !.text = MakeText(n)] :
     st \in {404, 500, 503}, n \in TextLens}
  \cup {[NoReply EXCEPT !.kind = "reply", !.status = st] : st \in {404, 500, 503}}

OkReplies ==
  {[NoReply EXCEPT !.kind = "reply", !.status = 200, !.readable = TRUE, !.json = p] :
     p \in ObjectPayloads \cup OtherPayloads}
  \cup {[NoReply EXCEPT !.kind = "reply", !.status = 204, !.readable = TRUE]}

Replies == ErrorReplies \cup OkReplies

\* upstream.ok
UpstreamOk(reply) == reply.status >= 200 /\ reply.status <= 299

(***************************************************************************)
(* Normalisation of the upstream payload.                                  *)
(***************************************************************************)
\* upstreamJson?.k
PayloadGet(json, k) ==
  IF json.t = "object"
  THEN CASE k = "comments" -> json.comments
         [] k = "data" -> json.data
         [] k = "results" -> json.results
  ELSE OtherContainer("undefined")

\* upstreamJson?.comments ?? upstreamJson?.data ?? upstreamJson?.results ?? []
RawComments(json) ==
  Coalesce(Coalesce(Coalesce(PayloadGet(json, "comments"), PayloadGet(json, "data")),
                    PayloadGet(json, "results")),
           ListContainer(<<>>))

\* c.k, for an item c that is neither null nor undefined
ItemGet(c, k) == IF c.t = "object" THEN c.f[k] ELSE JUndefined

\* x === undefined || x === null ? null : String(x)
NullOrString(v) == IF Nullish(v) THEN JNull ELSE JStr(String(v))

IdOf(c) == JStr(String(Coalesce(ItemGet(c, "id"), JStr(""))))

BodySource(c) == Coalesce(Coalesce(ItemGet(c, "body"), ItemGet(c, "selftext")), JStr(""))

BodyOf(c) == JStr(String(BodySource(c)))

ScoreOf_PassThrough(c) == Coalesce(ItemGet(c, "score"), JNull)

ScoreOf(c) == IF TypeofNumber(ItemGet(c, "score")) THEN ItemGet(c, "score") ELSE JNull

CreatedOf(c) ==
  IF TypeofNumber(ItemGet(c, "created_utc")) THEN ItemGet(c, "created_utc")
  ELSE IF TypeofNumber(ItemGet(c, "created")) THEN ItemGet(c, "created")
  ELSE JNull

\* the keys of NormalisedComment
RecordFields ==
  {"id", "author", "body", "score", "created_utc", "permalink", "subreddit"}

\* the callback of rawComments.map
NormaliseItem(c) ==
  [id |-> IdOf(c),
   author |-> NullOrString(ItemGet(c, "author")),
   body |-> BodyOf(c),
   score |-> ScoreOf(c),
   created_utc |-> CreatedOf(c),
   permalink |-> NullOrString(ItemGet(c, "permalink")),
   subreddit |-> NullOrString(ItemGet(c, "subreddit"))]

\* the callback throws: c.id on null, or String() of an unconvertible value
ItemThrows(c) ==
  \/ Nullish(c)
  \/ StringThrows(Coalesce(ItemGet(c, "id"), JStr("")))
  \/ StringThrows(ItemGet(c, "author"))
  \/ StringThrows(BodySource(c))
  \/ StringThrows(ItemGet(c, "permalink"))
  \/ StringThrows(ItemGet(c, "subreddit"))

MapItems_Reversed(items) ==
  [i \in 1..Len(items) |-> NormaliseItem(items[Len(items) + 1 - i])]

\* rawComments.map(...)
MapItems(items) == [i \in 1..Len(items) |-> NormaliseItem(items[i])]

\* rawComments.map throws: map is not a function, or the callback throws
MapThrows(raw) ==
  \/ raw.t # "array"
  \/ \E i \in 1..Len(raw.items) : ItemThrows(raw.items[i])

Detail_NoSlice(text) == text

\* text.slice(0, 500)
Detail(text) == SubSeq(text, 1, IF Len(text) < DetailMax THEN Len(text) ELSE DetailMax)

UnexpectedResponse == ErrorResponse(500, "Unexpected server error.")

\* The handler from the arrival of the upstream response to its own response
Complete(reply) ==
  IF ~UpstreamOk(reply)
  THEN [ErrorResponse(502, "Upstream Pushshift bridge error.") EXCEPT
          !.upstatus = reply.status,
          !.detail = Detail(IF reply.readable THEN reply.text ELSE <<>>)]
  ELSE IF reply.json.t = "invalid" THEN UnexpectedResponse
  ELSE LET rawComments == RawComments(reply.json)
       IN IF MapThrows(rawComments) THEN UnexpectedResponse
          ELSE LET comments == MapItems(rawComments.items)
               IN [NoResponse EXCEPT
                     !.status = 200, !.ok = TRUE, !.count = Len(comments),
                     !.comments = [i \in 1..Len(comments) |-> Stringify(comments[i])]]

(***************************************************************************)
(* The handler as a state machine: one request at a time.                  *)
(***************************************************************************)
TypeOK ==
  /\ BRIDGE_URL \in EnvUrlValues
  /\ API_KEY \in EnvKeyValues
  /\ pc \in {"idle", "received", "awaiting", "done"}
  /\ Len(outbound) \in 0..1

Init ==
  /\ BRIDGE_URL \in EnvUrlValues
  /\ API_KEY \in EnvKeyValues
  /\ request = NoRequest
  /\ pc = "idle"
  /\ outbound = <<>>
  /\ upstream = NoReply
  /\ response = NoResponse

\* the runtime invokes fetch(request)
Receive ==
  /\ pc = "idle"
  /\ \E req \in Requests : request' = req
  /\ pc' = "received"
  /\ UNCHANGED <<BRIDGE_URL, API_KEY, outbound, upstream, response>>

\* fetch up to the await of the upstream call
HandleRequest ==
  /\ pc = "received"
  /\ LET early == EarlyResponse(request, BRIDGE_URL, API_KEY)
     IN IF early # NoResponse
        THEN /\ response' = early
             /\ pc' = "done"
             /\ UNCHANGED outbound
        ELSE /\ outbound' = Append(outbound, Stringify(SafeParse(request.body).data))
             /\ pc' = "awaiting"
             /\ UNCHANGED response
  /\ UNCHANGED <<BRIDGE_URL, API_KEY, request, upstream>>

\* the upstream call rejects: the catch-all answers
FetchFails ==
  /\ pc = "awaiting"
  /\ upstream' = FailedReply
  /\ response' = UnexpectedResponse
  /\ pc' = "done"
  /\ UNCHANGED <<BRIDGE_URL, API_KEY, request, outbound>>

\* the upstream call resolves and the handler runs to its response
UpstreamReplies ==
  /\ pc = "awaiting"
  /\ \E reply \in Replies :
       /\ upstream' = reply
       /\ response' = Complete(reply)
  /\ pc' = "done"
  /\ UNCHANGED <<BRIDGE_URL, API_KEY, request, outbound>>

\* the response is returned; nothing of the call is kept
Return ==
  /\ pc = "done"
  /\ request' = NoRequest
  /\ outbound' = <<>>
  /\ upstream' = NoReply
  /\ response' = NoResponse
  /\ pc' = "idle"
  /\ UNCHANGED <<BRIDGE_URL, API_KEY>>

Next ==
  \/ Receive
  \/ HandleRequest
  \/ FetchFails
  \/ UpstreamReplies
  \/ Return

Spec == Init /\ [][Next]_vars

(***************************************************************************)
(* Properties.                                                             *)
(***************************************************************************)
Configured == ~Falsy(BRIDGE_URL) /\ ~Falsy(API_KEY)

Authenticated == request.method = "POST" /\ Configured /\ request.key = API_KEY

\* the upstream call resolved with a success status and a parsable body
SuccessPayload ==
  pc = "done" /\ upstream.kind = "reply" /\ UpstreamOk(upstream)
  /\ upstream.json.t # "invalid"

\* the list under the first of comments, data, results that holds a list
FirstList(json) ==
  IF PayloadGet(json, "comments").t = "array" THEN PayloadGet(json, "comments").items
  ELSE IF PayloadGet(json, "data").t = "array" THEN PayloadGet(json, "data").items
  ELSE IF PayloadGet(json, "results").t = "array" THEN PayloadGet(json, "results").items
  ELSE <<>>

Expected(items) == [i \in 1..Len(items) |-> Stringify(NormaliseItem(items[i]))]

\* C1: for every upstream success payload the response is 200 and carries
\* the normalisation of the list under the first of comments, data, results
\* that holds a list, and an empty list with count 0 when none holds a list
\* (absent, null or a non-list value); items the mapping cannot take are
\* left to C2.
C1_FirstListNormalised ==
  (SuccessPayload
   /\ \A i \in 1..Len(FirstList(upstream.json)) : ~ItemThrows(FirstList(upstream.json)[i]))
  => /\ response.status = 200
     /\ response.count = Len(FirstList(upstream.json))
     /\ response.comments = Expected(FirstList(upstream.json))

\* C2: whatever the JSON shape of the items of the upstream list, the
\* handler answers 200 with one record per item and never 500.
C2_MappingTotal ==
  (SuccessPayload /\ RawComments(upstream.json).t = "array")
  => /\ response.status = 200
     /\ response.count = Len(RawComments(upstream.json).items)
     /\ Len(response.comments) = Len(RawComments(upstream.json).items)

StagesPass ==
  /\ request.method = "POST"
  /\ Configured
  /\ ~Falsy(request.key) /\ request.key = API_KEY
  /\ request.body.t # "invalid"
  /\ SchemaIssues(request.body) = <<>>

\* C3: a request is forwarded exactly once when method, configuration,
\* credential, body parse and schema validation all pass, never when one of
\* them rejects, and never more than once.
C3_OneCall ==
  /\ Len(outbound) <= 1
  /\ pc \in {"idle", "received"} => Len(outbound) = 0
  /\ pc \in {"awaiting", "done"} => Len(outbound) = (IF StagesPass THEN 1 ELSE 0)

C3_Witness ==
  pc = "done" /\ StagesPass /\ Len(outbound) = 1 /\ upstream.kind = "reply"
  /\ response.status = 200

\* C4: a request whose method is not POST is answered 405 whatever its
\* body, its headers and the configuration.
C4_Method405 ==
  (pc = "done" /\ request.method # "POST") => response.status = 405

C4_Witness ==
  pc = "done" /\ request.method = "GET" /\ Configured /\ request.key = API_KEY
  /\ SchemaIssues(request.body) = <<>> /\ response.status = 405

\* C5 as stated: with both secrets configured, every request without the
\* x-mcp-key header or with another value than the API key is answered 401.
C5_Original ==
  (pc = "done" /\ Configured /\ request.key # API_KEY) => response.status = 401

\* C5 amended: with both secrets configured, every POST request without
\* the x-mcp-key header or with another value than the API key is answered
\* 401, whatever its body.
C5_Unauthorised ==
  (pc = "done" /\ request.method = "POST" /\ Configured /\ request.key # API_KEY)
  => response.status = 401

C5_Witness ==
  pc = "done" /\ request.method = "POST" /\ Configured /\ request.key = JStr("k1x")
  /\ request.body.t = "object" /\ SchemaIssues(request.body) = <<>>
  /\ response.status = 401

\* C6: a POST made while the bridge URL or the API key is not configured is
\* answered 500 whatever the credential header holds, never 401.
C6_Misconfigured ==
  (pc = "done" /\ request.method = "POST" /\ ~Configured) => response.status = 500

C6_Witness ==
  pc = "done" /\ request.method = "POST" /\ ~Falsy(BRIDGE_URL) /\ Falsy(API_KEY)
  /\ request.key = JStr("k1") /\ response.status = 500

Missing(v) == v.t = "undefined" \/ v = JStr("")

BadSize(v) ==
  v.t # "undefined" /\ ~(v.t = "number" /\ v.s = "" /\ v.n >= 1 /\ v.n <= 500)

Names(issues, k) == \E i \in 1..Len(issues) : issues[i].path = <<k>>

\* C7: an authenticated POST whose body lacks subreddit or query (or has
\* them empty) or whose size is not an integer of 1..500 is answered 400
\* with issues naming each such field and is not forwarded; a JSON body that
\* is not an object is answered 400 with an issue for the body itself; every
\* forwarded body has an integer size of 1..500.
C7_InvalidRequest ==
  /\ (pc = "done" /\ Authenticated /\ request.body.t = "object"
      /\ (\/ Missing(request.body.f["subreddit"])
          \/ Missing(request.body.f["query"])
          \/ BadSize(request.body.f["size"])))
     => /\ response.status = 400
        /\ Missing(request.body.f["subreddit"]) => Names(response.issues, "subreddit")
        /\ Missing(request.body.f["query"]) => Names(response.issues, "query")
        /\ BadSize(request.body.f["size"]) => Names(response.issues, "size")
        /\ outbound = <<>>
  /\ (pc = "done" /\ Authenticated /\ request.body.t \notin {"object", "invalid"})
     => /\ response.status = 400
        /\ response.issues # <<>>
        /\ outbound = <<>>
  /\ \A i \in 1..Len(outbound) :
       /\ "size" \in DOMAIN outbound[i]
       /\ outbound[i]["size"].t = "number" /\ outbound[i]["size"].s = ""
       /\ outbound[i]["size"].n >= 1 /\ outbound[i]["size"].n <= 500

C7_Witness ==
  pc = "done" /\ Authenticated /\ request.body.t = "object"
  /\ request.body.f["subreddit"] = JStr("movies")
  /\ request.body.f["query"] = JUndefined
  /\ request.body.f["size"] = JNum(501)
  /\ response.status = 400 /\ Len(response.issues) = 2

\* C8: when the upstream answers with a non-success status the response is
\* 502, carries that status and a detail of at most 500 characters that is
\* a prefix of the upstream body (empty when the body cannot be read), and
\* no records.
C8_UpstreamError ==
  (pc = "done" /\ upstream.kind = "reply" /\ ~UpstreamOk(upstream))
  => /\ response.status = 502
     /\ response.upstatus = upstream.status
     /\ Len(response.detail) <= 500
     /\ Len(response.detail) <= Len(upstream.text)
     /\ \A i \in 1..Len(response.detail) : response.detail[i] = upstream.text[i]
     /\ ~upstream.readable => response.detail = <<>>
     /\ response.comments = <<>> /\ response.count = 0 /\ ~response.ok

C8_Witness ==
  pc = "done" /\ upstream.kind = "reply" /\ upstream.status = 503
  /\ Len(upstream.text) = 650 /\ Len(response.detail) = 500
  /\ response.status = 502

\* C9: every record of a 200 response has exactly the seven fields, id and
\* body text, author, permalink and subreddit text or null, score and
\* created_utc a number or null; a score that is not a number becomes null.
C9_RecordShape ==
  (pc = "done" /\ response.status = 200)
  => \A i \in 1..Len(response.comments) :
       LET r == response.comments[i]
           c == RawComments(upstream.json).items[i]
       IN /\ DOMAIN r = RecordFields
          /\ r["id"].t = "string" /\ r["body"].t = "string"
          /\ \A k \in {"author", "permalink", "subreddit"} : r[k].t \in {"string", "null"}
          /\ \A k \in {"score", "created_utc"} : r[k].t \in {"number", "null"}
          /\ ItemGet(c, "score").t # "number" => r["score"] = JNull

C9_Witness ==
  pc = "done" /\ response.status = 200 /\ Len(response.comments) = 1
  /\ RawComments(upstream.json).items = <<ExampleItem>>
  /\ response.comments[1]["score"] = JNull
  /\ response.comments[1]["id"] = JStr("1")

\* C10: in a 200 response count is the number of items of the selected
\* upstream list and comments holds the record of each item, in the order
\* of the upstream list.
C10_OrderAndCount ==
  (pc = "done" /\ response.status = 200)
  => /\ response.count = Len(FirstList(upstream.json))
     /\ Len(response.comments) = Len(FirstList(upstream.json))
     /\ \A i \in 1..Len(response.comments) :
          response.comments[i] = Stringify(NormaliseItem(FirstList(upstream.json)[i]))

C10_Witness ==
  pc = "done" /\ response.status = 200 /\ response.count = 2
  /\ FirstList(upstream.json) = <<ExampleItem, FullItem>>
  /\ response.comments[1] # response.comments[2]

====
